---- MODULE Spec2Model ----
(***************************************************************************)
(* Version resolution engine of jaredallard/vcs (package resolver):        *)
(* Version, Criteria (Parse / Check) and Resolver (fetch, cache, sort,     *)
(* select), with the parts of Masterminds/semver v3.3.1 that the resolver  *)
(* calls.                                                                  *)
(*                                                                         *)
(* A Go string is modelled as a sequence of lexemes ("" is << >>): every   *)
(* lexeme is a run of characters that the code never splits: a digit, a    *)
(* word, an operator, a separator or a ref namespace prefix.               *)
(***************************************************************************)
EXTENDS Integers, Sequences, FiniteSets, TLC

\* ------------------------------------------------------------------ strings

Digits == {"0", "1", "2", "9"}

\* strconv.ParseUint of one decimal digit
DigitVal(d) == CASE d = "0" -> 0 [] d = "1" -> 1 [] d = "2" -> 2 [] d = "9" -> 9 [] OTHER -> 0

\* Lexemes that may occur in a pre-release or metadata identifier
\* ([0-9A-Za-z-]+) and in branch names.
Words == {"alpha", "bad", "beta", "dev", "main", "v", "x"}

IdentLex == Digits \cup Words \cup {"-"}

\* Byte order of the lexemes that are compared with < on Go strings: no
\* lexeme of IdentLex is a prefix of another one, so comparing the first
\* differing lexeme is comparing the first differing byte.
LexRank(l) ==
    CASE l = "-" -> 0 [] l = "0" -> 1 [] l = "1" -> 2 [] l = "2" -> 3 [] l = "9" -> 4
      [] l = "alpha" -> 5 [] l = "bad" -> 6 [] l = "beta" -> 7 [] l = "dev" -> 8
      [] l = "main" -> 9 [] l = "v" -> 10 [] l = "x" -> 11 [] OTHER -> 12

RECURSIVE StrLess(_, _)
\* Go's s < t on strings
StrLess(s, t) ==
    IF t = << >> THEN FALSE
    ELSE IF s = << >> THEN TRUE
    ELSE IF Head(s) = Head(t) THEN StrLess(Tail(s), Tail(t))
    ELSE LexRank(Head(s)) < LexRank(Head(t))

\* strings.Contains(s, l) for a one-lexeme needle
Contains(s, l) == \E i \in 1..Len(s) : s[i] = l

\* strings.Index: position of the first l in s, 0 when there is none
IndexOf(s, l) ==
    IF Contains(s, l)
    THEN CHOOSE i \in 1..Len(s) : s[i] = l /\ \A j \in 1..(i - 1) : s[j] # l
    ELSE 0

\* s[a..b] (1-based, inclusive), << >> when the range is empty
Slice(s, a, b) == IF a > b THEN << >> ELSE SubSeq(s, a, b)

RECURSIVE SplitOn(_, _)
\* strings.Split(s, sep) for a one-lexeme separator
SplitOn(s, sep) ==
    IF ~Contains(s, sep) THEN << s >>
    ELSE LET i == IndexOf(s, sep)
         IN  << Slice(s, 1, i - 1) >> \o SplitOn(Slice(s, i + 1, Len(s)), sep)

AllIn(s, S) == \A i \in 1..Len(s) : s[i] \in S

RECURSIVE NumVal(_)
\* strconv.ParseUint of a run of digits
NumVal(s) == IF s = << >> THEN 0 ELSE 10 * NumVal(Slice(s, 1, Len(s) - 1)) + DigitVal(s[Len(s)])

IsNumber(s) == s # << >> /\ AllIn(s, Digits)

\* ------------------------------------------------------- semver.Version

NoSv == [valid |-> FALSE, major |-> 0, minor |-> 0, patch |-> 0, pre |-> << >>, metadata |-> << >>]

\* validatePrerelease / validateMetadata: dot separated, every element a
\* non-empty run of [0-9A-Za-z-], a numeric element without leading zero
ValidIdent(part) ==
    /\ part # << >>
    /\ AllIn(part, IdentLex)
    /\ (IsNumber(part) /\ Len(part) > 1) => part[1] # "0"

\* every dot separated element is a valid identifier
ValidIdents(s) == \A part \in { SplitOn(s, ".")[i] : i \in 1..Len(SplitOn(s, ".")) } : ValidIdent(part)

\* The optional leading v of the version regular expressions
CutV(s) == IF s # << >> /\ Head(s) = "v" THEN Tail(s) ELSE s

\* The (\+meta)? group: what follows the first "+"
CutMeta(body) ==
    IF IndexOf(body, "+") = 0
    THEN [main |-> body, hasMeta |-> FALSE, meta |-> << >>]
    ELSE [main |-> Slice(body, 1, IndexOf(body, "+") - 1), hasMeta |-> TRUE,
          meta |-> Slice(body, IndexOf(body, "+") + 1, Len(body))]

\* The (-pre)? group: what follows the first "-" of the rest; the dot
\* separated parts before it are the core
CutPre(m) ==
    IF IndexOf(m.main, "-") = 0
    THEN [nums |-> SplitOn(m.main, "."), hasPre |-> FALSE, pre |-> << >>,
          hasMeta |-> m.hasMeta, meta |-> m.meta]
    ELSE [nums |-> SplitOn(Slice(m.main, 1, IndexOf(m.main, "-") - 1), "."), hasPre |-> TRUE,
          pre |-> Slice(m.main, IndexOf(m.main, "-") + 1, Len(m.main)),
          hasMeta |-> m.hasMeta, meta |-> m.meta]

\* The groups of a string matched by
\* v?(part)(\.part)?(\.part)?(-pre)?(\+meta)?  : core parts, pre and metadata
VersionParts(s) == CutPre(CutMeta(CutV(s)))

\* semver.NewVersion: the loose parser, missing minor and patch are 0
VersionOf(p) ==
    IF /\ Len(p.nums) \in 1..3
       /\ \A i \in 1..Len(p.nums) : IsNumber(p.nums[i])
       /\ p.hasPre => ValidIdents(p.pre)
       /\ p.hasMeta => ValidIdents(p.meta)
    THEN [valid |-> TRUE,
          major |-> NumVal(p.nums[1]),
          minor |-> IF Len(p.nums) >= 2 THEN NumVal(p.nums[2]) ELSE 0,
          patch |-> IF Len(p.nums) >= 3 THEN NumVal(p.nums[3]) ELSE 0,
          pre |-> p.pre,
          metadata |-> p.meta]
    ELSE NoSv

\* semver.NewVersion: match, then build
NewVersion(s) == VersionOf(VersionParts(s))

\* comparePrePart
ComparePrePart(s, o) ==
    IF s = o THEN 0
    ELSE IF s = << >> THEN -1
    ELSE IF o = << >> THEN 1
    ELSE IF ~IsNumber(s) /\ ~IsNumber(o) THEN (IF StrLess(o, s) THEN 1 ELSE -1)
    ELSE IF ~IsNumber(o) THEN -1
    ELSE IF ~IsNumber(s) THEN 1
    ELSE IF NumVal(s) > NumVal(o) THEN 1 ELSE -1

RECURSIVE ComparePreParts(_, _)
ComparePreParts(sp, op) ==
    IF sp = << >> /\ op = << >> THEN 0
    ELSE LET s == IF sp = << >> THEN << >> ELSE Head(sp)
             o == IF op = << >> THEN << >> ELSE Head(op)
         IN  IF s # o THEN ComparePrePart(s, o)
             ELSE ComparePreParts(IF sp = << >> THEN sp ELSE Tail(sp),
                                  IF op = << >> THEN op ELSE Tail(op))

\* comparePrerelease
ComparePrerelease(v, o) == ComparePreParts(SplitOn(v, "."), SplitOn(o, "."))

CompareInt(a, b) == IF a < b THEN -1 ELSE IF a > b THEN 1 ELSE 0

\* Version.Compare: -1, 0 or 1; metadata is ignored
Compare(v, o) ==
    IF CompareInt(v.major, o.major) # 0 THEN CompareInt(v.major, o.major)
    ELSE IF CompareInt(v.minor, o.minor) # 0 THEN CompareInt(v.minor, o.minor)
    ELSE IF CompareInt(v.patch, o.patch) # 0 THEN CompareInt(v.patch, o.patch)
    ELSE IF v.pre = << >> /\ o.pre = << >> THEN 0
    ELSE IF v.pre = << >> THEN 1
    ELSE IF o.pre = << >> THEN -1
    ELSE ComparePrerelease(v.pre, o.pre)

\* Version.GreaterThan
GreaterThan(v, o) == Compare(v, o) > 0

\* Version.LessThan
LessThan(v, o) == Compare(v, o) < 0

\* --------------------------------------------------- semver.Constraints

\* The comparison operators of constraintOps that the model's inputs use
\* ("" is the missing operator)
Ops == {"=", "!=", ">", "<", ">=", "<=", "~", "^"}

\* isX
isX(x) == x \in {<< "x" >>, << "*" >>}

NoConstraint == [ok |-> FALSE, op |-> "", con |-> NoSv, dirty |-> FALSE,
                 minorDirty |-> FALSE, patchDirty |-> FALSE]

\* parseConstraint on one comparison matched by constraintRegex:
\* (op)(v?(part)(\.part)?(\.part)?(-pre)?(\+meta)?) with part in [0-9xX*]+
ConstraintOf(op, p) ==
    LET p1   == p.nums[1]
        p2   == IF Len(p.nums) >= 2 THEN p.nums[2] ELSE << >>
        p3   == IF Len(p.nums) >= 3 THEN p.nums[3] ELSE << >>
        matches == /\ Len(p.nums) \in 1..3
                   /\ \A i \in 1..Len(p.nums) :
                          p.nums[i] # << >> /\ AllIn(p.nums[i], Digits \cup {"x", "*"})
                   /\ p.hasPre => ValidIdents(p.pre)
                   /\ p.hasMeta => ValidIdents(p.meta)
        mk(okk, ma, mi, pa, meta, d, md, pd) ==
            IF okk
            THEN [ok |-> TRUE, op |-> op,
                  con |-> [valid |-> TRUE, major |-> ma, minor |-> mi, patch |-> pa,
                           pre |-> p.pre, metadata |-> meta],
                  dirty |-> d, minorDirty |-> md, patchDirty |-> pd]
            ELSE NoConstraint
    IN  IF ~matches THEN NoConstraint
        ELSE IF isX(p1) THEN mk(TRUE, 0, 0, 0, << >>, TRUE, FALSE, FALSE)
        ELSE IF isX(p2) \/ p2 = << >>
             THEN mk(IsNumber(p1), NumVal(p1), 0, 0, << >>, TRUE, TRUE, FALSE)
        ELSE IF isX(p3) \/ p3 = << >>
             THEN mk(IsNumber(p1) /\ IsNumber(p2), NumVal(p1), NumVal(p2), 0, << >>,
                     TRUE, FALSE, TRUE)
        ELSE mk(IsNumber(p1) /\ IsNumber(p2) /\ IsNumber(p3),
                NumVal(p1), NumVal(p2), NumVal(p3), p.meta, FALSE, FALSE, FALSE)

\* The operator group of constraintRegex, "" when it is missing
OpOf(chunk) == IF chunk # << >> /\ Head(chunk) \in Ops THEN Head(chunk) ELSE ""

\* parseConstraint: match constraintRegex, then build the comparison
parseConstraint(chunk) ==
    ConstraintOf(OpOf(chunk), VersionParts(IF OpOf(chunk) = "" THEN chunk ELSE Tail(chunk)))

RECURSIVE JoinOps(_)
\* the \s* between an operator and its version in constraintRegex
JoinOps(s) ==
    IF Len(s) < 2 THEN s
    ELSE IF Head(s) \in Ops /\ s[2] = " " THEN JoinOps(<< Head(s) >> \o Tail(Tail(s)))
    ELSE << Head(s) >> \o JoinOps(Tail(s))

\* The comparisons of a constraint string: findConstraintRegex over a string
\* accepted by validConstraintRegex, comparisons separated by spaces
Comparisons(s) == SelectSeq(SplitOn(JoinOps(s), " "), LAMBDA ch : ch # << >>)

NilConstraints == [set |-> FALSE, cs |-> << >>]

\* semver.NewConstraint: set is FALSE when it returns an error (and nil)
\* parseConstraint on every comparison
ParseAll(chunks) == [i \in 1..Len(chunks) |-> parseConstraint(chunks[i])]

\* The Constraints value, or the error of the comparison that failed
ConstraintsOf(parsed) ==
    IF parsed # << >> /\ \A i \in 1..Len(parsed) : parsed[i].ok
    THEN [set |-> TRUE, cs |-> parsed]
    ELSE NilConstraints

\* semver.NewConstraint
NewConstraint(s) == ConstraintsOf(ParseAll(Comparisons(s)))

\* The guard every constraint function starts with: a pre-release version
\* never satisfies a comparison whose version has no pre-release
PreExcluded(v, c) == v.pre # << >> /\ c.con.pre = << >>

\* constraintTilde
constraintTilde(v, c) ==
    IF PreExcluded(v, c) THEN FALSE
    ELSE IF LessThan(v, c.con) THEN FALSE
    ELSE IF c.con.major = 0 /\ c.con.minor = 0 /\ c.con.patch = 0
            /\ ~c.minorDirty /\ ~c.patchDirty THEN TRUE
    ELSE IF v.major # c.con.major THEN FALSE
    ELSE IF v.minor # c.con.minor /\ ~c.minorDirty THEN FALSE
    ELSE TRUE

\* constraintTildeOrEqual
constraintTildeOrEqual(v, c) ==
    IF PreExcluded(v, c) THEN FALSE
    ELSE IF c.dirty THEN constraintTilde(v, c)
    ELSE Compare(v, c.con) = 0

\* constraintNotEqual
constraintNotEqual(v, c) ==
    IF PreExcluded(v, c) THEN FALSE
    ELSE IF c.dirty
         THEN IF c.con.major # v.major THEN TRUE
              ELSE IF c.con.minor # v.minor /\ ~c.minorDirty THEN TRUE
              ELSE IF c.minorDirty THEN FALSE
              ELSE IF c.con.patch # v.patch /\ ~c.patchDirty THEN TRUE
              ELSE IF c.patchDirty THEN FALSE
              ELSE Compare(v, c.con) # 0
    ELSE Compare(v, c.con) # 0

\* constraintGreaterThan
constraintGreaterThan(v, c) ==
    IF PreExcluded(v, c) THEN FALSE
    ELSE IF ~c.dirty THEN Compare(v, c.con) = 1
    ELSE IF v.major > c.con.major THEN TRUE
    ELSE IF v.major < c.con.major THEN FALSE
    ELSE IF c.minorDirty THEN FALSE
    ELSE IF c.patchDirty THEN v.minor > c.con.minor
    ELSE Compare(v, c.con) = 1

\* constraintLessThan
constraintLessThan(v, c) == ~PreExcluded(v, c) /\ Compare(v, c.con) < 0

\* constraintGreaterThanEqual
constraintGreaterThanEqual(v, c) == ~PreExcluded(v, c) /\ Compare(v, c.con) >= 0

\* constraintLessThanEqual
constraintLessThanEqual(v, c) ==
    IF PreExcluded(v, c) THEN FALSE
    ELSE IF ~c.dirty THEN Compare(v, c.con) <= 0
    ELSE IF v.major > c.con.major THEN FALSE
    ELSE IF v.major = c.con.major /\ v.minor > c.con.minor /\ ~c.minorDirty THEN FALSE
    ELSE TRUE

\* constraintCaret
constraintCaret(v, c) ==
    IF PreExcluded(v, c) THEN FALSE
    ELSE IF LessThan(v, c.con) THEN FALSE
    ELSE IF c.con.major > 0 \/ c.minorDirty THEN v.major = c.con.major
    ELSE IF c.con.major = 0 /\ v.major > 0 THEN FALSE
    ELSE IF c.con.minor > 0 \/ c.patchDirty THEN v.minor = c.con.minor
    ELSE IF c.con.minor = 0 /\ v.minor > 0 THEN FALSE
    ELSE c.con.patch = v.patch

\* constraint.check: the function constraintOps holds for the operator
checkOne(v, c) ==
    CASE c.op \in {"", "="} -> constraintTildeOrEqual(v, c)
      [] c.op = "!=" -> constraintNotEqual(v, c)
      [] c.op = ">"  -> constraintGreaterThan(v, c)
      [] c.op = "<"  -> constraintLessThan(v, c)
      [] c.op = ">=" -> constraintGreaterThanEqual(v, c)
      [] c.op = "<=" -> constraintLessThanEqual(v, c)
      [] c.op = "~"  -> constraintTilde(v, c)
      [] c.op = "^"  -> constraintCaret(v, c)

\* Constraints.Check: every comparison of the (single) group holds
ConstraintsCheck(cs, v) == \A i \in 1..Len(cs.cs) : checkOne(v, cs.cs[i])

\* ------------------------------------------------------ resolver.Version

NoVersion == [Commit |-> << >>, Tag |-> << >>, Branch |-> << >>, Virtual |-> << >>, sv |-> NoSv]

\* strings.HasPrefix(ref, prefix) for a namespace prefix lexeme
HasPrefix(ref, prefix) == ref # << >> /\ Head(ref) = prefix

\* strings.HasSuffix(ref, suffix)
HasSuffix(ref, suffix) == ref # << >> /\ ref[Len(ref)] = suffix

\* strings.TrimPrefix(ref, prefix) when ref has the prefix
TrimPrefix(ref) == Tail(ref)

\* The versions one entry of the listing adds (none or one): the body of
\* the loop of fetchVersionsIfNecessary
TagVersions_keepsAll(commit, tag, sv) ==
    << [NoVersion EXCEPT !.Commit = commit, !.Tag = tag, !.sv = sv] >>

\* A tag entry: kept when the tag parses as a version
TagVersions(commit, tag, sv) ==
    IF ~sv.valid THEN << >>
    ELSE << [NoVersion EXCEPT !.Commit = commit, !.Tag = tag, !.sv = sv] >>

\* One "commit ref" line of the listing
EntryVersions(remoteStr) ==
    IF Len(remoteStr) # 2 THEN << >>
    ELSE LET commit == remoteStr[1]
             ref == remoteStr[2]
         IN  IF HasPrefix(ref, "refs/tags/")
             THEN IF HasSuffix(ref, "^{}") THEN << >>
                  ELSE TagVersions(commit, TrimPrefix(ref), NewVersion(TrimPrefix(ref)))
             ELSE IF HasPrefix(ref, "refs/heads/")
             THEN << [NoVersion EXCEPT !.Commit = commit, !.Branch = TrimPrefix(ref)] >>
             ELSE << >>

RECURSIVE ParseListing(_)
\* The version list fetchVersionsIfNecessary builds from a listing
ParseListing(remoteStrs) ==
    IF remoteStrs = << >> THEN << >>
    ELSE EntryVersions(Head(remoteStrs)) \o ParseListing(Tail(remoteStrs))

Less_olderFirst(a, b) ==
    IF a.sv.valid /\ b.sv.valid THEN LessThan(a.sv, b.sv)
    ELSE IF a.sv.valid THEN TRUE
    ELSE IF b.sv.valid THEN FALSE
    ELSE StrLess(a.Branch, b.Branch)

\* A *Version: nil, or a pointer to the value v
NilPtr == [nil |-> TRUE, v |-> NoVersion]

PtrTo(v) == [nil |-> FALSE, v |-> v]

Equal_comparesVirtual(v, other) ==
    IF v.nil \/ other.nil THEN v.nil = other.nil
    ELSE /\ v.v.Commit = other.v.Commit /\ v.v.Tag = other.v.Tag
         /\ v.v.Branch = other.v.Branch /\ v.v.Virtual = other.v.Virtual

\* Version.Equal: with a nil on either side the pointers are compared
Equal(v, other) ==
    IF v.nil \/ other.nil THEN v.nil = other.nil
    ELSE v.v.Commit = other.v.Commit /\ v.v.Tag = other.v.Tag /\ v.v.Branch = other.v.Branch

\* Version.String
String(v) ==
    IF v.Virtual # << >> THEN << "virtual (source: " >> \o v.Virtual \o << ")" >>
    ELSE IF v.Tag # << >> THEN << "tag " >> \o v.Tag \o << " (" >> \o v.Commit \o << ")" >>
    ELSE IF v.Branch # << >>
         THEN << "branch " >> \o v.Branch \o << " (" >> \o v.Commit \o << ")" >>
    ELSE v.Commit

GitRef_branchFirst(v) ==
    IF v.Virtual # << >> THEN << "NOT_A_VALID_GIT_VERSION" >>
    ELSE IF v.Branch # << >> THEN << "refs/heads/" >> \o v.Branch
    ELSE IF v.Tag # << >> THEN << "refs/tags/" >> \o v.Tag
    ELSE v.Commit

\* Version.GitRef
GitRef(v) ==
    IF v.Virtual # << >> THEN << "NOT_A_VALID_GIT_VERSION" >>
    ELSE IF v.Tag # << >> THEN << "refs/tags/" >> \o v.Tag
    ELSE IF v.Branch # << >> THEN << "refs/heads/" >> \o v.Branch
    ELSE v.Commit

\* The comparator Resolve hands to sort.Slice: versions a before b
Less(a, b) ==
    IF a.sv.valid /\ b.sv.valid THEN GreaterThan(a.sv, b.sv)
    ELSE IF a.sv.valid THEN TRUE
    ELSE IF b.sv.valid THEN FALSE
    ELSE StrLess(a.Branch, b.Branch)

\* ----------------------------------------------------- resolver.Criteria

ErrNil == "nil"
ErrUnsupported == "UnsupportedConstraint"
ErrInvalid == "InvalidConstraint"

\* A Criteria value as the caller builds it: c nil, prerelease "", once unused
NewCriteria(constraint, branch) ==
    [Constraint |-> constraint, Branch |-> branch, c |-> NilConstraints,
     prerelease |-> << >>, once |-> FALSE]

RECURSIVE StripConstraint(_)
\* constRexp.ReplaceAllString(c.Constraint, ""): drops the leading
\* characters that are neither 'v' nor a digit
StripConstraint(s) ==
    IF s = << >> \/ Head(s) \in Digits \cup {"v"} THEN s ELSE StripConstraint(Tail(s))

\* strings.Split(pre, ".")[0]
Track(pre) == SplitOn(pre, ".")[1]

\* strings.Contains(c.Constraint, "||") || strings.Contains(c.Constraint, "&&")
IsComplex(constraint) == Contains(constraint, "||") \/ Contains(constraint, "&&")

\* The function Parse hands to once.Do.  err is the variable of Parse that
\* Parse returns; the err that receives the result of semver.NewConstraint
\* is the one declared inside the function by "vc, err :=", so that result
\* never reaches Parse's err.
ParseRange(c, vc) ==
    [c |-> [c EXCEPT !.prerelease = IF vc.valid THEN Track(vc.pre) ELSE @,
                     !.c = NewConstraint(c.Constraint)],
     err |-> ErrNil]

\* The function Parse hands to once.Do
ParseBody(c) ==
    IF c.Constraint = << >> THEN [c |-> c, err |-> ErrNil]
    ELSE IF IsComplex(c.Constraint) THEN [c |-> c, err |-> ErrUnsupported]
    ELSE ParseRange(c, NewVersion(StripConstraint(c.Constraint)))

\* Criteria.Parse: the body runs on the first call only, later calls return
\* their own, untouched, err
\* once.Do has run the function
OnceDone(r) == [c |-> [r.c EXCEPT !.once = TRUE], err |-> r.err]

\* Criteria.Parse
Parse(c) == IF c.once THEN [c |-> c, err |-> ErrNil] ELSE OnceDone(ParseBody(c))

BranchMatches_anyBranch(c, v) == v.Branch # << >>

\* Check, first test: the criterion's branch is the version's branch
BranchMatches(c, v) == c.Branch # << >> /\ v.Branch = c.Branch

BranchVacuous_never(c, branch) == FALSE

\* Check, second test: a branch is requested and the criterion has none
BranchVacuous(c, branch) == branch # << >> /\ c.Branch = << >>

\* Check, third test: a parsed range and a parsed version
HasRange(c, v) == c.c.set /\ v.sv.valid

\* The criterion's own track differs from the requested one
TrackMismatch(c, prerelease) == c.prerelease # << >> /\ c.prerelease # prerelease

NeedsRewrite_anyTrack(c, prerelease) == prerelease # << >>

\* The criterion has no track and one is requested
NeedsRewrite(c, prerelease) == prerelease # << >> /\ c.prerelease = << >>

Suffixed_twice(constraint, prerelease) ==
    constraint \o << "-" >> \o prerelease \o << "-" >> \o prerelease

\* fmt.Sprintf("%s-%s", c.Constraint, prerelease)
Suffixed(constraint, prerelease) == constraint \o << "-" >> \o prerelease

Rewritten_noTrack(c, prerelease, cs) ==
    [c EXCEPT !.Constraint = Suffixed(@, prerelease), !.c = cs]

\* The rewrite of Check: Constraint, then c, then (unless NewConstraint
\* failed and Check panicked) prerelease
Rewritten(c, prerelease, cs) ==
    [c EXCEPT !.Constraint = Suffixed(@, prerelease), !.c = cs,
              !.prerelease = IF cs.set THEN prerelease ELSE @]

\* Check, the rewrite for the requested track
Rewrite(c, prerelease) ==
    Rewritten(c, prerelease, NewConstraint(Suffixed(c.Constraint, prerelease)))

\* Check, last step: panic on a range that did not parse, else c.c.Check(v.sv)
CheckRange(c2, v) ==
    IF ~c2.c.set THEN [ok |-> FALSE, c |-> c2, panic |-> TRUE]
    ELSE [ok |-> ConstraintsCheck(c2.c, v.sv), c |-> c2, panic |-> FALSE]

\* Criteria.Check as one call: the result, the criterion afterwards, and
\* whether it panicked
Check(c, v, prerelease, branch) ==
    IF BranchMatches(c, v) THEN [ok |-> TRUE, c |-> c, panic |-> FALSE]
    ELSE IF BranchVacuous(c, branch) THEN [ok |-> TRUE, c |-> c, panic |-> FALSE]
    ELSE IF HasRange(c, v)
         THEN IF TrackMismatch(c, prerelease) THEN [ok |-> FALSE, c |-> c, panic |-> FALSE]
              ELSE CheckRange(IF NeedsRewrite(c, prerelease) THEN Rewrite(c, prerelease) ELSE c, v)
    ELSE [ok |-> FALSE, c |-> c, panic |-> FALSE]

\* ------------------------------------------------------------- inputs

\* The goroutines that call Resolve on the one Resolver
Procs == {"g1", "g2"}

\* The source URIs
URIs == {"u1", "u2"}

\* The Criteria instances the callers hold
CritIds == {1, 2}

\* Resolve calls made in one behaviour by the one goroutine of SpecSeq
MaxCalls == 3

\* Resolve calls made in one behaviour by the goroutines of Spec together
MaxConcurrentCalls == 2

V110 == << "1", ".", "1", ".", "0" >>
V120a1 == << "1", ".", "2", ".", "0", "-", "alpha", ".", "1" >>
V120b1 == << "1", ".", "2", ".", "0", "-", "beta", ".", "1" >>
V200 == << "v", "2", ".", "0", ".", "0" >>
V110v == << "v" >> \o V110

TagRef(tag) == << "refs/tags/" >> \o tag
BranchRef(branch) == << "refs/heads/" >> \o branch

\* What git ls-remote reports: lines of fields
ListingPre == << << << "c1" >>, TagRef(V110) >>, << << "c2" >>, TagRef(V120a1) >>,
                 << << "c3" >>, TagRef(V120b1) >> >>
ListingBranches == << << << "c4" >>, BranchRef(<< "main" >>) >>, << << "c5" >>, TagRef(V200) >>,
                      << << "c6" >>, BranchRef(<< "dev" >>) >> >>
ListingJunk == << << << "c7" >>, TagRef(<< "bad" >>) >>, << << "c8" >>, TagRef(V110) >>,
                  << << "c9" >>, TagRef(V110 \o << "^{}" >>) >>, << << "ca" >>, TagRef(V110v) >>,
                  << << "c0" >>, << "HEAD" >> >>,
                  << << "c0" >> >> >>

\* The listings a URI's remote may report when it is asked
Remote(uri) == IF uri = "u1" THEN {ListingPre, ListingBranches} ELSE {ListingJunk}

CStar == << "*" >>
CGe2 == << ">=", "2", ".", "0", ".", "0" >>
CGeAlpha == << ">=", "1", ".", "2", ".", "0", "-", "alpha" >>
CGeBeta == << ">=", "1", ".", "2", ".", "0", "-", "beta" >>
CEqAlpha == << "1", ".", "2", ".", "0", "-", "alpha" >>
CRange == << ">=", "1", ".", "0", ".", "0", " ", "<", "2", ".", "0", ".", "0" >>
COr == << "1", ".", "1", ".", "0", "||", "2", ".", "0", ".", "0" >>
CAnd == << ">=", "1", ".", "0", ".", "0", "&&", "<", "2", ".", "0", ".", "0" >>
CBad == << "bad" >>

\* The Criteria values callers build
CriteriaPool ==
    { NewCriteria(c, << >>) : c \in {CStar, CGe2, CGeAlpha, CGeBeta, CEqAlpha, CRange,
                                      COr, CAnd, CBad, << >>} }
    \cup { NewCriteria(<< >>, << "main" >>), NewCriteria(<< >>, << "dev" >>),
           NewCriteria(CStar, << "main" >>), NewCriteria(COr, << "main" >>),
           NewCriteria(CGeAlpha, << "main" >>) }

\* The values of the second instance
SecondPool == { NewCriteria(CStar, << >>), NewCriteria(CGeBeta, << >>),
                NewCriteria(<< >>, << "dev" >>), NewCriteria(CGeBeta, << "dev" >>) }

\* The Version values callers build and compare: every combination of set
\* and unset fields
VersionValues ==
    { [Commit |-> c, Tag |-> t, Branch |-> b, Virtual |-> x, sv |-> s] :
        c \in {<< >>, << "c1" >>}, t \in {<< >>, V110}, b \in {<< >>, << "main" >>},
        x \in {<< >>, << "test" >>}, s \in {NoSv, NewVersion(V110)} }

VersionPtrs == {NilPtr} \cup { PtrTo(v) : v \in VersionValues }

\* The argument lists of a Resolve call: zero, one or two criteria
ArgLists ==
    { << >> } \cup { << a >> : a \in CritIds }
              \cup { << ab[1], ab[2] >> : ab \in { x \in CritIds \X CritIds : x[1] # x[2] } }

\* -------------------------------------------------------------- state

VARIABLES
    versions,     \* Resolver.versions: URI -> cached list (ok: present in the map)
    versionsMu,   \* Resolver.versionsMu: the goroutine holding it, "" when free
    crit,         \* the Criteria instances
    g,            \* per goroutine: where its Resolve call stands, and its locals
    listCalls,    \* per URI: calls of git.ListRemote made so far
    listOk,       \* per URI: calls of git.ListRemote that returned a listing
    parseLog,     \* per Criteria instance: the (Constraint, error) of each Parse call
    prev,         \* the last Resolve call that returned
    budget,       \* Resolve calls still to be made
    vcall         \* the call of a method made on its own: operands and results

\* The Resolver, its callers and their criteria
rvars == << versions, versionsMu, crit, g, listCalls, listOk, parseLog, prev, budget >>

vars == << rvars, vcall >>

NoVCall == [method |-> "", a |-> NilPtr, b |-> NilPtr, c |-> NilPtr,
            eq |-> << >>, str |-> << >>, cr |-> NewCriteria(<< >>, << >>),
            prerelease |-> << >>, branch |-> << >>, ok |-> FALSE, panic |-> FALSE]

NoEntry == [ok |-> FALSE, list |-> << >>]

NoOut == [kind |-> "", idx |-> 0, ver |-> NoVersion]

Idle == [pc |-> "idle", uri |-> "", args |-> << >>, k |-> 0, prerelease |-> << >>,
         branch |-> << >>, n |-> 0, i |-> 0, j |-> 0, tmp |-> NoVersion, vi |-> 0, ci |-> 0,
         out |-> NoOut, cached |-> FALSE, given |-> << >>]

NoCall == [valid |-> FALSE, uri |-> "", args |-> << >>, out |-> NoOut, cached |-> FALSE,
           given |-> << >>]

\* NewResolver, and the callers' criteria as built
InitWith(pool, second, n) ==
    /\ versions = [u \in URIs |-> NoEntry]
    /\ versionsMu = ""
    /\ crit \in { c \in [CritIds -> pool \cup second] : c[1] \in pool /\ c[2] \in second }
    /\ g = [p \in Procs |-> Idle]
    /\ listCalls = [u \in URIs |-> 0]
    /\ listOk = [u \in URIs |-> 0]
    /\ parseLog = [k \in CritIds |-> {}]
    /\ prev = NoCall
    /\ budget = n
    /\ vcall = NoVCall

InitSeq == InitWith(CriteriaPool, SecondPool, MaxCalls)

\* The criteria of the concurrent callers: a range without a track or a
\* branch pin, and a range on the alpha track
Init ==
    InitWith({NewCriteria(CStar, << >>), NewCriteria(<< >>, << "main" >>)},
             {NewCriteria(CGeAlpha, << >>)}, MaxConcurrentCalls)

\* The call ends with this outcome; idx is the element of the list that
\* the returned *Version points to (0: nil)
Finish(p, kind, idx) ==
    g' = [g EXCEPT ![p] = [@ EXCEPT !.pc = "done",
                                     !.out = [kind |-> kind, idx |-> idx,
                                              ver |-> IF idx = 0 THEN NoVersion
                                                      ELSE versions[g[p].uri].list[idx]]]]

\* The version list of the URI the call resolves: the cached slice's array
List(p) == versions[g[p].uri].list

\* ---------------------------------------------------- Resolver.Resolve

\* The criteria as the caller hands them over: Constraint, Branch, and
\* whether the instance has been used before
Given(args) ==
    [n \in 1..Len(args) |-> [Constraint |-> crit[args[n]].Constraint,
                             Branch |-> crit[args[n]].Branch, used |-> crit[args[n]].once]]

Call_noTest(p, uri, args) ==
    /\ g[p].pc = "idle"
    /\ budget > 0
    /\ budget' = budget - 1
    /\ g' = [g EXCEPT ![p] = [Idle EXCEPT !.uri = uri, !.args = args, !.cached = versions[uri].ok,
                                          !.given = Given(args), !.k = 1,
                                          !.pc = IF Len(args) = 0 THEN "fetch" ELSE "unify"]]
    /\ UNCHANGED << versions, versionsMu, crit, listCalls, listOk, parseLog, prev >>

\* Resolve is called: the test for no criteria
Call(p, uri, args) ==
    /\ g[p].pc = "idle"
    /\ budget > 0
    /\ budget' = budget - 1
    /\ LET st == [Idle EXCEPT !.uri = uri, !.args = args, !.cached = versions[uri].ok,
                              !.given = Given(args)]
       IN  IF Len(args) = 0
           THEN g' = [g EXCEPT ![p] = [st EXCEPT !.pc = "done", !.out = [NoOut EXCEPT !.kind = "NoCriteria"]]]
           ELSE g' = [g EXCEPT ![p] = [st EXCEPT !.pc = "unify", !.k = 1]]
    /\ UNCHANGED << versions, versionsMu, crit, listCalls, listOk, parseLog, prev >>

BranchConflict_never(branch, c) == FALSE

\* Two criteria name different branches
BranchConflict(branch, c) == c.Branch # << >> /\ branch # << >> /\ branch # c.Branch

\* A parsed criterion carries a track
CarriesTrack(c) == c.c.set /\ c.prerelease # << >>

TrackConflict_never(prerelease, c) == FALSE

\* Two criteria carry different tracks
TrackConflict(prerelease, c) == CarriesTrack(c) /\ prerelease # << >> /\ prerelease # c.prerelease

\* One round of the first loop of Resolve, on criterion k
Unify(p) ==
    /\ g[p].pc = "unify"
    /\ \E id \in {g[p].args[g[p].k]} : \E c \in {crit[id]} : \E r \in {Parse(c)} :
           IF BranchConflict(g[p].branch, c)
           THEN /\ Finish(p, "ConflictingBranch", 0)
                /\ UNCHANGED << crit, parseLog >>
           ELSE /\ crit' = [crit EXCEPT ![id] = r.c]
                /\ parseLog' = [parseLog EXCEPT ![id] = @ \cup {[input |-> c.Constraint, err |-> r.err]}]
                /\ IF r.err # ErrNil THEN Finish(p, r.err, 0)
                   ELSE IF TrackConflict(g[p].prerelease, r.c)
                        THEN Finish(p, "ConflictingPrerelease", 0)
                   ELSE g' = [g EXCEPT ![p] =
                                [@ EXCEPT !.branch = IF c.Branch # << >> THEN c.Branch ELSE @,
                                          !.prerelease = IF CarriesTrack(r.c) THEN r.c.prerelease ELSE @,
                                          !.k = @ + 1,
                                          !.pc = IF g[p].k = Len(g[p].args) THEN "fetch" ELSE "unify"]]
    /\ UNCHANGED << versions, versionsMu, listCalls, listOk, prev, budget >>

CacheHit_never(uri) == FALSE

\* r.versions[uri] is present
CacheHit(uri) == versions[uri].ok

\* The sort starts on a list of n elements
StartSort(st, n) == [st EXCEPT !.pc = "sort", !.n = n, !.i = 2, !.j = 2]

Fetch_noLock(p) ==
    /\ g[p].pc = "fetch"
    /\ IF CacheHit(g[p].uri)
       THEN /\ g' = [g EXCEPT ![p] = StartSort(@, Len(List(p)))]
            /\ UNCHANGED << versionsMu, listCalls >>
       ELSE /\ versionsMu' = p
            /\ listCalls' = [listCalls EXCEPT ![g[p].uri] = @ + 1]
            /\ g' = [g EXCEPT ![p] = [@ EXCEPT !.pc = "listing"]]
    /\ UNCHANGED << versions, crit, listOk, parseLog, prev, budget >>

\* fetchVersionsIfNecessary takes versionsMu and looks the URI up: a hit
\* returns the cached slice and releases the lock, a miss calls
\* git.ListRemote with the lock held
Fetch(p) ==
    /\ g[p].pc = "fetch"
    /\ versionsMu = ""
    /\ IF CacheHit(g[p].uri)
       THEN /\ g' = [g EXCEPT ![p] = StartSort(@, Len(List(p)))]
            /\ UNCHANGED << versionsMu, listCalls >>
       ELSE /\ versionsMu' = p
            /\ listCalls' = [listCalls EXCEPT ![g[p].uri] = @ + 1]
            /\ g' = [g EXCEPT ![p] = [@ EXCEPT !.pc = "listing"]]
    /\ UNCHANGED << versions, crit, listOk, parseLog, prev, budget >>

ListFails_cachesEmpty(p) ==
    /\ g[p].pc = "listing"
    /\ versionsMu' = ""
    /\ versions' = [versions EXCEPT ![g[p].uri] = [ok |-> TRUE, list |-> << >>]]
    /\ Finish(p, "ListingError", 0)
    /\ UNCHANGED << crit, listCalls, listOk, parseLog, prev, budget >>

\* git.ListRemote fails: the error is returned, the deferred Unlock runs
ListFails(p) ==
    /\ g[p].pc = "listing"
    /\ versionsMu' = ""
    /\ Finish(p, "ListingError", 0)
    /\ UNCHANGED << versions, crit, listCalls, listOk, parseLog, prev, budget >>

\* git.ListRemote returns a listing: the versions are built and stored
ListReturns(p) ==
    /\ g[p].pc = "listing"
    /\ \E remoteStrs \in Remote(g[p].uri) : \E list \in {ParseListing(remoteStrs)} :
              /\ versions' = [versions EXCEPT ![g[p].uri] = [ok |-> TRUE, list |-> list]]
              /\ g' = [g EXCEPT ![p] = StartSort(@, Len(list))]
    /\ versionsMu' = ""
    /\ listOk' = [listOk EXCEPT ![g[p].uri] = @ + 1]
    /\ UNCHANGED << crit, listCalls, parseLog, prev, budget >>

\* sort.Slice on at most 12 elements is insertionSortLessFunc:
\*   for i := a + 1; i < b; i++ {
\*       for j := i; j > a && less(j, j-1); j-- { swap(j, j-1) } }
\* One test of the inner loop (indices from 1)
SortTest(p) ==
    /\ g[p].pc = "sort"
    /\ LET st == g[p]
       IN  IF st.i > st.n
           THEN g' = [g EXCEPT ![p] = [@ EXCEPT !.pc = "walk", !.vi = 1, !.ci = 1, !.i = 0, !.j = 0]]
           ELSE IF st.j > 1 /\ Less(List(p)[st.j], List(p)[st.j - 1])
                THEN g' = [g EXCEPT ![p] = [@ EXCEPT !.pc = "swap"]]
                ELSE g' = [g EXCEPT ![p] = [@ EXCEPT !.i = @ + 1, !.j = st.i + 1]]
    /\ UNCHANGED << versions, versionsMu, crit, listCalls, listOk, parseLog, prev, budget >>

\* The swap function of reflectlite.Swapper, first half:
\* tmp = list[j]; list[j] = list[j-1]
SwapFirst(p) ==
    /\ g[p].pc = "swap"
    /\ g' = [g EXCEPT ![p] = [@ EXCEPT !.pc = "swap2", !.tmp = List(p)[g[p].j]]]
    /\ versions' = [versions EXCEPT ![g[p].uri].list[g[p].j] = List(p)[g[p].j - 1]]
    /\ UNCHANGED << versionsMu, crit, listCalls, listOk, parseLog, prev, budget >>

\* second half: list[j-1] = tmp
SwapSecond(p) ==
    /\ g[p].pc = "swap2"
    /\ g' = [g EXCEPT ![p] = [@ EXCEPT !.pc = "sort", !.tmp = NoVersion, !.j = @ - 1]]
    /\ versions' = [versions EXCEPT ![g[p].uri].list[g[p].j - 1] = g[p].tmp]
    /\ UNCHANGED << versionsMu, crit, listCalls, listOk, parseLog, prev, budget >>

Advance_lastWins(p, satisfied) ==
    LET st == g[p]
    IN  IF st.ci < Len(st.args)
        THEN g' = [g EXCEPT ![p] = [@ EXCEPT !.pc = "walk", !.ci = @ + 1]]
        ELSE IF satisfied THEN Finish(p, "ok", st.vi)
        ELSE g' = [g EXCEPT ![p] = [@ EXCEPT !.pc = "walk", !.vi = @ + 1, !.ci = 1]]

Advance_firstOnly(p, satisfied) ==
    LET st == g[p]
    IN  IF ~satisfied
        THEN g' = [g EXCEPT ![p] = [@ EXCEPT !.pc = "walk", !.vi = @ + 1, !.ci = 1]]
        ELSE Finish(p, "ok", st.vi)

\* The loops of Resolve after criterion ci has answered for version vi
Advance(p, satisfied) ==
    LET st == g[p]
    IN  IF ~satisfied
        THEN g' = [g EXCEPT ![p] = [@ EXCEPT !.pc = "walk", !.vi = @ + 1, !.ci = 1]]
        ELSE IF st.ci = Len(st.args) THEN Finish(p, "ok", st.vi)
        ELSE g' = [g EXCEPT ![p] = [@ EXCEPT !.pc = "walk", !.ci = @ + 1]]

\* One call of Check from the second loop of Resolve, up to its result or
\* to the point where it is about to rewrite the criterion
Walk(p) ==
    /\ g[p].pc = "walk"
    /\ LET st == g[p]
       IN  IF st.vi > st.n
           THEN Finish(p, "UnableToSatisfy", 0)
           ELSE LET c == crit[st.args[st.ci]]
                    v == List(p)[st.vi]
                IN  IF BranchMatches(c, v) \/ BranchVacuous(c, st.branch) THEN Advance(p, TRUE)
                    ELSE IF ~HasRange(c, v) \/ TrackMismatch(c, st.prerelease)
                         THEN Advance(p, FALSE)
                    ELSE IF NeedsRewrite(c, st.prerelease)
                         THEN g' = [g EXCEPT ![p] = [@ EXCEPT !.pc = "rewrite"]]
                    ELSE Advance(p, ConstraintsCheck(c.c, v.sv))
    /\ UNCHANGED << versions, versionsMu, crit, listCalls, listOk, parseLog, prev, budget >>

\* Check rewrites the criterion for the requested track and evaluates the
\* new range (or panics when the new string does not parse)
RewriteStep(p) ==
    /\ g[p].pc = "rewrite"
    /\ \E id \in {g[p].args[g[p].ci]} : \E c2 \in {Rewrite(crit[id], g[p].prerelease)} :
           /\ crit' = [crit EXCEPT ![id] = c2]
           /\ IF ~c2.c.set THEN Finish(p, "panic", 0)
              ELSE Advance(p, ConstraintsCheck(c2.c, List(p)[g[p].vi].sv))
    /\ UNCHANGED << versions, versionsMu, listCalls, listOk, parseLog, prev, budget >>

\* Resolve returns to its caller
Return(p) ==
    /\ g[p].pc = "done"
    /\ prev' = [valid |-> TRUE, uri |-> g[p].uri, args |-> g[p].args, out |-> g[p].out,
                cached |-> g[p].cached, given |-> g[p].given]
    /\ g' = [g EXCEPT ![p] = Idle]
    /\ UNCHANGED << versions, versionsMu, crit, listCalls, listOk, parseLog, budget >>

Step(p) ==
    \/ \E uri \in URIs, args \in ArgLists : Call(p, uri, args)
    \/ Unify(p)
    \/ Fetch(p)
    \/ ListFails(p)
    \/ ListReturns(p)
    \/ SortTest(p)
    \/ SwapFirst(p)
    \/ SwapSecond(p)
    \/ Walk(p)
    \/ RewriteStep(p)
    \/ Return(p)

\* Any number of goroutines call Resolve on the Resolver
Next == (\E p \in Procs : Step(p)) /\ UNCHANGED vcall

Spec == Init /\ [][Next]_vars

\* One goroutine makes its Resolve calls one after the other
NextSeq == Step("g1") /\ UNCHANGED vcall

SpecSeq == InitSeq /\ [][NextSeq]_vars

\* -------------------------------------------------- the Version methods

\* a.Equal(b), together with the calls that show what kind of relation
\* Equal is: b.Equal(a), b.Equal(c), a.Equal(c), a.Equal(a)
CallEqual(a, b, c) ==
    /\ vcall' = [NoVCall EXCEPT !.method = "Equal", !.a = a, !.b = b, !.c = c,
                                !.eq = << Equal(a, b), Equal(b, a), Equal(b, c),
                                          Equal(a, c), Equal(a, a) >>]
    /\ UNCHANGED rvars

\* a.GitRef()
CallGitRef(a) ==
    /\ ~a.nil
    /\ vcall' = [NoVCall EXCEPT !.method = "GitRef", !.a = a, !.str = GitRef(a.v)]
    /\ UNCHANGED rvars

\* a.String()
CallString(a) ==
    /\ ~a.nil
    /\ vcall' = [NoVCall EXCEPT !.method = "String", !.a = a, !.str = String(a.v)]
    /\ UNCHANGED rvars

\* No Resolver is in use
InitVersion == InitWith({NewCriteria(CStar, << >>)}, {NewCriteria(CStar, << >>)}, 0)

\* No method has been called yet
NoneCalled == vcall = NoVCall

NextVersion ==
    \/ NoneCalled /\ \E a, b, c \in VersionPtrs : CallEqual(a, b, c)
    \/ NoneCalled /\ \E a \in VersionPtrs : CallGitRef(a)
    \/ NoneCalled /\ \E a \in VersionPtrs : CallString(a)

\* One call of a method of Version on values the caller has built
SpecVersion == InitVersion /\ [][NextVersion]_vars

\* ------------------------------------------------- the Criteria methods

\* Parse and Check calls made on one Criteria instance in one behaviour
MaxCriteriaCalls == 3

\* The instance the methods are called on
TheCriteria == 1

\* The versions Check is given: every version of the listings
CheckVersions ==
    { ParseListing(l)[n] : l \in {ListingPre, ListingBranches}, n \in 1..3 }

\* The track and branch arguments of Check
Tracks == { << >>, << "alpha" >>, << "beta" >> }

BranchNames == { << >>, << "main" >>, << "dev" >> }

\* c.Parse()
CallParse ==
    /\ budget > 0
    /\ budget' = budget - 1
    /\ \E c \in {crit[TheCriteria]} : \E r \in {Parse(c)} :
          /\ crit' = [crit EXCEPT ![TheCriteria] = r.c]
          /\ parseLog' = [parseLog EXCEPT ![TheCriteria] =
                              @ \cup {[input |-> c.Constraint, err |-> r.err]}]
          /\ vcall' = [NoVCall EXCEPT !.method = "Parse", !.cr = c]
    /\ UNCHANGED << versions, versionsMu, g, listCalls, listOk, prev >>

\* c.Check(v, prerelease, branch); a panic leaves the instance as the
\* statements before it made it
CallCheck(v, prerelease, branch) ==
    /\ budget > 0
    /\ budget' = budget - 1
    /\ \E c \in {crit[TheCriteria]} : \E r \in {Check(c, v, prerelease, branch)} :
          /\ crit' = [crit EXCEPT ![TheCriteria] = r.c]
          /\ vcall' = [NoVCall EXCEPT !.method = "Check", !.a = PtrTo(v), !.cr = c,
                                      !.prerelease = prerelease, !.branch = branch,
                                      !.ok = r.ok, !.panic = r.panic]
    /\ UNCHANGED << versions, versionsMu, g, listCalls, listOk, parseLog, prev >>

\* A Criteria as its caller built it, and no Resolver in use
InitCriteria == InitWith(CriteriaPool, {NewCriteria(CStar, << >>)}, MaxCriteriaCalls)

NextCriteria ==
    \/ CallParse
    \/ \E v \in CheckVersions, prerelease \in Tracks, branch \in BranchNames :
          CallCheck(v, prerelease, branch)

\* Any sequence of Parse and Check calls on one Criteria instance
SpecCriteria == InitCriteria /\ [][NextCriteria]_vars

\* ------------------------------------------- callers with a fixed plan

\* The steps of a Resolve call that is under way
Work(p) ==
    \/ Unify(p)
    \/ Fetch(p)
    \/ ListFails(p)
    \/ ListReturns(p)
    \/ SortTest(p)
    \/ SwapFirst(p)
    \/ SwapSecond(p)
    \/ Walk(p)
    \/ RewriteStep(p)
    \/ Return(p)

\* The caller makes the calls of a plan in turn, all for one URI; every
\* entry of the plan is the set of argument lists its call may have
PlannedCall(p, plan) ==
    /\ budget \in 1..Len(plan)
    /\ \E uri \in URIs, args \in plan[Len(plan) - budget + 1] :
          /\ prev.valid => uri = prev.uri
          /\ Call(p, uri, args)

\* NewResolver, the criteria the caller has built, and the calls to make
InitPlan(crits, ids, plan) ==
    /\ versions = [u \in URIs |-> NoEntry]
    /\ versionsMu = ""
    /\ crit \in crits
    /\ g = [p \in Procs |-> Idle]
    /\ listCalls = [u \in URIs |-> 0]
    /\ listOk = [u \in URIs |-> 0]
    /\ parseLog = [k \in ids |-> {}]
    /\ prev = NoCall
    /\ budget = Len(plan)
    /\ vcall = NoVCall

\* Two criteria, a second instance of each, and a criterion of its own for
\* the call that fills the cache
OrderCriteria ==
    { << a, b, a, b, NewCriteria(CStar, << >>) >> : a \in CriteriaPool, b \in CriteriaPool }

OrderIds == 1..5

\* A call with the last instance, then the two criteria in one order, then
\* their second instances in the other order
OrderPlan == << { << 5 >> }, { << 1, 2 >> }, { << 4, 3 >> } >>

InitOrder == InitPlan(OrderCriteria, OrderIds, OrderPlan)

NextOrder == (PlannedCall("g1", OrderPlan) \/ Work("g1")) /\ UNCHANGED vcall

\* The same criteria given to Resolve in both orders
SpecOrder == InitOrder /\ [][NextOrder]_vars

\* A criterion without a track, one on the alpha track and one on the beta
\* track
StickyCriteria ==
    { << x, a, b >> :
        x \in { NewCriteria(CStar, << >>), NewCriteria(CRange, << >>),
                NewCriteria(CStar, << "main" >>) },
        a \in { NewCriteria(CGeAlpha, << >>), NewCriteria(CEqAlpha, << >>),
                NewCriteria(CGeAlpha, << "main" >>) },
        b \in { NewCriteria(CGeBeta, << >>), NewCriteria(CGeBeta, << "dev" >>) } }

StickyIds == 1..3

\* A call with the first two instances, then a call with the first alone
\* or with the first and the third
StickyPlan == << { << 1, 2 >>, << 2, 1 >> }, { << 1 >>, << 1, 3 >>, << 3, 1 >> } >>

InitSticky == InitPlan(StickyCriteria, StickyIds, StickyPlan)

NextSticky == (PlannedCall("g1", StickyPlan) \/ Work("g1")) /\ UNCHANGED vcall

\* A criterion is used again after a call that had a track
SpecSticky == InitSticky /\ [][NextSticky]_vars

\* ------------------------------------------------------------- claims

\* A Resolve call of goroutine p has its outcome and has not yet returned
Done(p) == g[p].pc = "done"

Returned(p, kind) == Done(p) /\ g[p].out.kind = kind

\* C1 (as claimed): for every URI, git.ListRemote is invoked at most once,
\* whatever it returns.
C1_ListedAtMostOnce == \A u \in URIs : listCalls[u] <= 1

\* C1 (amended): for every URI, git.ListRemote returns a listing at most
\* once, and once the URI's list is cached no Resolve call, sequential or
\* concurrent, invokes git.ListRemote for it again.
C1_ListedOnceSuccessfully ==
    /\ [](\A u \in URIs : listOk[u] <= 1)
    /\ [][\A u \in URIs : versions[u].ok => listCalls'[u] = listCalls[u]]_vars

\* a second Resolve for a cached URI has got its list from the cache
C1_Witness ==
    \E p \in Procs : g[p].pc = "sort" /\ g[p].cached /\ listCalls[g[p].uri] = 1

\* The call of p is about to read an element of the cached list
ReadsList(p) ==
    \/ g[p].pc = "sort" /\ g[p].i <= g[p].n /\ g[p].j > 1
    \/ g[p].pc = "walk" /\ g[p].vi <= g[p].n
    \/ g[p].pc \in {"swap", "rewrite"}

\* The call of p is about to write an element of the cached list
WritesList(p) == g[p].pc \in {"swap", "swap2"}

\* C2: no two Resolve calls for the same URI are, outside versionsMu, both
\* about to write elements of the URI's cached list, or one about to write
\* and the other about to read them.
C2_NoUnlockedListRace ==
    \A p, q \in Procs :
        (p # q /\ g[p].uri = g[q].uri /\ versionsMu \notin {p, q})
            => ~(WritesList(p) /\ (ReadsList(q) \/ WritesList(q)))

\* Version.Equal on the versions two outcomes carry
SameOutcome(a, b) ==
    /\ a.kind = b.kind
    /\ a.ver.Commit = b.ver.Commit /\ a.ver.Tag = b.ver.Tag /\ a.ver.Branch = b.ver.Branch

\* The criteria of two calls are the same instances, or unused instances
\* with equal Constraint and Branch
SameCriteria(a, b) ==
    \/ a.args = b.args
    \/ /\ a.given = b.given
       /\ \A n \in 1..Len(a.given) : ~a.given[n].used

\* C3: a Resolve call that follows another one for the same URI, the cache
\* populated before both, with the same criteria, has the same outcome.
C3_Deterministic ==
    \A p \in Procs :
        (Done(p) /\ prev.valid /\ prev.cached /\ prev.uri = g[p].uri /\ SameCriteria(prev, g[p]))
            => SameOutcome(prev.out, g[p].out)

\* All the criteria of the call of p answer true for v
AllSatisfied(p, v) ==
    \A n \in 1..Len(g[p].args) : Check(crit[g[p].args[n]], v, g[p].prerelease, g[p].branch).ok

\* The tagged versions of a list that are no pre-releases
Releases(list) == { n \in 1..Len(list) : list[n].sv.valid /\ list[n].sv.pre = << >> }

\* C4: the version a successful Resolve returns is an element of the URI's
\* list that satisfies every criterion, no element before it satisfies
\* them all, and for the one criterion "*" it is a release that no other
\* release of the list exceeds.
C4_FirstSatisfying ==
    \A p \in Procs :
        Returned(p, "ok") =>
            LET list == List(p)
                idx == g[p].out.idx
            IN  /\ idx \in 1..Len(list)
                /\ g[p].out.ver = list[idx]
                /\ AllSatisfied(p, list[idx])
                /\ \A e \in 1..(idx - 1) : ~AllSatisfied(p, list[e])
                /\ (Len(g[p].args) = 1 /\ crit[g[p].args[1]].Constraint = CStar
                      /\ crit[g[p].args[1]].Branch = << >>)
                     => /\ idx \in Releases(list)
                        /\ \A e \in Releases(list) : ~GreaterThan(list[e].sv, list[idx].sv)

\* a call with two criteria returned a version that is not the first of its list
C4_Witness ==
    \E p \in Procs : Returned(p, "ok") /\ g[p].out.idx >= 2 /\ Len(g[p].args) = 2

\* The pre-release track of a tagged version, "" for a release or a branch
VersionTrack(v) == IF v.sv.valid THEN Track(v.sv.pre) ELSE << >>

\* C5: when some criterion of a Resolve call carries a pre-release track,
\* the version returned is never a tag on another pre-release track.
C5_TrackIsolation ==
    \A p \in Procs :
        (Returned(p, "ok") /\ \E n \in 1..Len(g[p].args) : CarriesTrack(crit[g[p].args[n]]))
            => VersionTrack(g[p].out.ver) \in {<< >>, g[p].prerelease}

\* C6: when some criterion of a Resolve call has a Branch, the version
\* returned is the version of that branch and never a tag.
C6_BranchPinWins ==
    \A p \in Procs :
        (Returned(p, "ok") /\ \E n \in 1..Len(g[p].args) : crit[g[p].args[n]].Branch # << >>)
            => g[p].out.ver.Branch = g[p].branch /\ g[p].out.ver.Tag = << >>

\* A constraint string that Parse accepts: empty, or a range expression
\* without "||" and "&&"
WellFormed(constraint) ==
    constraint = << >> \/ (~IsComplex(constraint) /\ NewConstraint(constraint).set)

\* A non-empty constraint without "||" and "&&" that is no range expression
Malformed(constraint) ==
    constraint # << >> /\ ~IsComplex(constraint) /\ ~NewConstraint(constraint).set

\* The call of p is past its first loop
PastUnify(p) == g[p].pc \in {"fetch", "listing", "sort", "swap", "swap2", "walk", "rewrite"}

\* C7: every Parse call on a criterion whose constraint is malformed
\* returns the InvalidConstraint error, and no Resolve call with such a
\* criterion goes on to fetch and match.
C7_InvalidConstraintFails ==
    /\ \A k \in CritIds : \A e \in parseLog[k] : Malformed(e.input) => e.err = ErrInvalid
    /\ \A p \in Procs :
          PastUnify(p) => \A n \in 1..Len(g[p].args) : ~Malformed(crit[g[p].args[n]].Constraint)

\* C8: a Resolve call ends in UnableToSatisfy only when every criterion it
\* was given is well-formed.
C8_UnableToSatisfyOnlyWellFormed ==
    \A p \in Procs :
        Returned(p, "UnableToSatisfy")
            => \A n \in 1..Len(g[p].args) : WellFormed(g[p].given[n].Constraint)

\* C9: all the Parse calls on one Criteria instance return the same result.
C9_ParseSameResult ==
    \A k \in CritIds : Cardinality({ e.err : e \in parseLog[k] }) <= 1

\* C10: every Parse call on a criterion whose constraint contains "||" or
\* "&&" returns the UnsupportedConstraint error, and the criterion's range
\* and track stay unset.
C10_ComplexRejected ==
    \A k \in CritIds :
        /\ \A e \in parseLog[k] : IsComplex(e.input) => e.err = ErrUnsupported
        /\ IsComplex(crit[k].Constraint) => ~crit[k].c.set /\ crit[k].prerelease = << >>

\* The call of p was given two criteria that name different branches
NamesTwoBranches(p) ==
    /\ Len(g[p].given) = 2
    /\ g[p].given[1].Branch # << >> /\ g[p].given[2].Branch # << >>
    /\ g[p].given[1].Branch # g[p].given[2].Branch

\* C11 (as claimed): a Resolve call given two criteria that name different
\* branches never gets to fetch, and ends with ConflictingBranch.
C11_BranchConflictAlways ==
    \A p \in Procs :
        NamesTwoBranches(p)
            => ~PastUnify(p) /\ (Done(p) => g[p].out.kind = "ConflictingBranch")

\* C11 (amended): a Resolve call given two criteria that name different
\* branches never gets to fetch, calls git.ListRemote for no URI and leaves
\* the cache as it is, and ends with ConflictingBranch unless Parse returns
\* an error for the first criterion (a complex constraint on its first
\* use), which then is the outcome.
C11_BranchConflictOrParseError ==
    /\ [](\A p \in Procs :
            NamesTwoBranches(p)
                => /\ ~PastUnify(p)
                   /\ Done(p) =>
                        \/ g[p].out.kind = "ConflictingBranch"
                        \/ /\ g[p].out.kind = ErrUnsupported
                           /\ IsComplex(g[p].given[1].Constraint)
                           /\ ~g[p].given[1].used)
    /\ [][\A p \in Procs :
            NamesTwoBranches(p)' => versions' = versions /\ listCalls' = listCalls]_vars

\* a call with the criteria {Branch: main} and {Branch: dev} has ended
\* with ConflictingBranch
C11_Witness ==
    \E p \in Procs : NamesTwoBranches(p) /\ Returned(p, "ConflictingBranch")

\* The pre-release track of the version a constraint string starts with,
\* "" when there is none
TrackOfVersion(vc) == IF vc.valid THEN Track(vc.pre) ELSE << >>

TrackOf(constraint) == TrackOfVersion(NewVersion(StripConstraint(constraint)))

\* Two criteria whose constraints are range expressions that carry
\* different pre-release tracks
TwoTracks(given) ==
    /\ Len(given) = 2
    /\ \A n \in 1..2 : /\ given[n].Constraint # << >>
                        /\ WellFormed(given[n].Constraint)
                        /\ TrackOf(given[n].Constraint) # << >>
    /\ TrackOf(given[1].Constraint) # TrackOf(given[2].Constraint)

\* The call of p was given such criteria
NamesTwoTracks(p) == TwoTracks(g[p].given)

\* C12 (as claimed): a Resolve call given two criteria whose constraints
\* carry different pre-release tracks never gets to fetch, and ends with
\* ConflictingPrerelease.
C12_TrackConflictAlways ==
    \A p \in Procs :
        NamesTwoTracks(p)
            => ~PastUnify(p) /\ (Done(p) => g[p].out.kind = "ConflictingPrerelease")

\* C12 (amended): a Resolve call given two criteria whose constraints carry
\* different pre-release tracks never gets to fetch, calls git.ListRemote
\* for no URI and leaves the cache as it is, and ends with
\* ConflictingPrerelease unless the two criteria also name different
\* branches, which ends it with ConflictingBranch.
C12_TrackConflictOrBranchConflict ==
    /\ [](\A p \in Procs :
            NamesTwoTracks(p)
                => /\ ~PastUnify(p)
                   /\ Done(p) =>
                        \/ g[p].out.kind = "ConflictingPrerelease"
                        \/ g[p].out.kind = "ConflictingBranch" /\ NamesTwoBranches(p))
    /\ [][\A p \in Procs :
            TwoTracks(g'[p].given) => versions' = versions /\ listCalls' = listCalls]_vars

\* a call with the constraints >=1.2.0-alpha and >=1.2.0-beta has ended
\* with ConflictingPrerelease
C12_Witness ==
    \E p \in Procs : NamesTwoTracks(p) /\ Returned(p, "ConflictingPrerelease")

\* The call of p was given no criteria
NoCriteriaGiven(st) == st.pc # "idle" /\ st.args = << >>

\* C13: a Resolve call given no criteria ends at once with NoCriteria and
\* no version, calls git.ListRemote for no URI and leaves the cache as it
\* is.
C13_NoCriteria ==
    /\ [](\A p \in Procs :
            NoCriteriaGiven(g[p]) => Returned(p, "NoCriteria") /\ g[p].out.idx = 0)
    /\ [][\A p \in Procs :
            NoCriteriaGiven(g'[p]) => versions' = versions /\ listCalls' = listCalls]_vars

\* a call without criteria has ended, for a URI that is not cached
C13_Witness ==
    \E p \in Procs : NoCriteriaGiven(g[p]) /\ Done(p) /\ ~versions[g[p].uri].ok

\* C14: when git.ListRemote fails, the Resolve call ends with that failure
\* and no version, the step stores nothing in the cache (no entry for the
\* URI, the entries of the other URIs as they were), and the call makes no
\* further git.ListRemote call.
C14_ListingFailure ==
    /\ [](\A p \in Procs :
            Returned(p, "ListingError") => ~versions[g[p].uri].ok /\ g[p].out.idx = 0)
    /\ [][\A p \in Procs :
            /\ (g[p].pc = "listing" /\ g'[p].out.kind = "ListingError")
                  => g'[p].pc = "done" /\ versions' = versions /\ listCalls' = listCalls
            /\ Done(p) => listCalls' = listCalls /\ versions' = versions]_vars

\* a call has ended with the failure of git.ListRemote while the other URI
\* is cached
C14_Witness ==
    \E p \in Procs : /\ Returned(p, "ListingError")
                      /\ \E u \in URIs \ {g[p].uri} : versions[u].ok

\* A listing entry (commit, refs/tags/<name>) whose name parses as a
\* semantic version and does not end in "^{}"
TagEntry(e) ==
    /\ Len(e) = 2
    /\ HasPrefix(e[2], "refs/tags/") /\ ~HasSuffix(e[2], "^{}")
    /\ NewVersion(Tail(e[2])).valid

\* A listing entry (commit, refs/heads/<name>)
BranchEntry(e) == Len(e) = 2 /\ HasPrefix(e[2], "refs/heads/")

\* The version v is the one of the tag or branch entry e
VersionOfEntry(v, e) ==
    /\ v.Commit = e[1]
    /\ TagEntry(e) => v.Tag = Tail(e[2]) /\ v.Branch = << >>
    /\ BranchEntry(e) => v.Branch = Tail(e[2]) /\ v.Tag = << >>

\* A tagged version (Tag, no Branch, the semver of the tag) or a
\* branch-only version (Branch, no Tag, no semver), never virtual
Discovered(v) ==
    /\ v.Virtual = << >>
    /\ \/ v.Tag # << >> /\ v.Branch = << >> /\ v.sv.valid /\ v.sv = NewVersion(v.Tag)
       \/ v.Branch # << >> /\ v.Tag = << >> /\ ~v.sv.valid

\* The list holds one version for each tag or branch entry of the
\* listing, and nothing else
ListOfListing(list, l) ==
    /\ Len(list) = Cardinality({ i \in 1..Len(l) : TagEntry(l[i]) \/ BranchEntry(l[i]) })
    /\ \A i \in 1..Len(l) :
          (TagEntry(l[i]) \/ BranchEntry(l[i]))
              => Cardinality({ n \in 1..Len(list) : VersionOfEntry(list[n], l[i]) }) = 1
    /\ \A n \in 1..Len(list) : Discovered(list[n])

\* C15: the list that a step caches for a URI holds exactly one tagged
\* version for each entry refs/tags/<name> of the listing whose name is a
\* semantic version and does not end in "^{}", one branch-only version for
\* each entry refs/heads/<name>, and nothing else; Virtual is never set.
C15_CachedListOfListing ==
    [][\A u \in URIs :
          (~versions[u].ok /\ versions'[u].ok)
              => \E l \in Remote(u) : ListOfListing(versions'[u].list, l)]_vars

\* the listing with a non-semver tag, a peeled tag, HEAD and a line of
\* one field is cached as the two versions it has
C15_Witness == versions["u2"].ok /\ Len(versions["u2"].list) = 2 /\ versions["u1"].ok

\* The call of p has sorted its list and is matching
Matching(p) == g[p].pc \in {"walk", "rewrite"}

\* The call of p has just sorted its list
JustSorted(p) == g[p].pc = "walk" /\ g[p].vi = 1 /\ g[p].ci = 1

\* Tagged versions before branch-only versions, no tagged version before
\* a strictly newer one, no branch before a smaller branch name
InOrder(list) ==
    \A i, j \in 1..Len(list) :
        i < j =>
            /\ list[j].sv.valid => list[i].sv.valid
            /\ (list[i].sv.valid /\ list[j].sv.valid) => ~GreaterThan(list[j].sv, list[i].sv)
            /\ (~list[i].sv.valid /\ ~list[j].sv.valid) => ~StrLess(list[j].Branch, list[i].Branch)

\* The versions of all the cached lists
CachedVersions == UNION { { versions[u].list[n] : n \in 1..Len(versions[u].list) } : u \in URIs }

\* Neither of two versions is before the other
Incomparable(a, b) == ~Less(a, b) /\ ~Less(b, a)

\* Less is a strict weak order on S
StrictWeakOrder(S) ==
    /\ \A a \in S : ~Less(a, a)
    /\ \A a, b \in S : Less(a, b) => ~Less(b, a)
    /\ \A a, b, c \in S : (Less(a, b) /\ Less(b, c)) => Less(a, c)
    /\ \A a, b, c \in S : (Incomparable(a, b) /\ Incomparable(b, c)) => Incomparable(a, c)

\* C16: once a Resolve call has sorted its list, tagged versions precede
\* branch-only versions, a strictly newer tag precedes a strictly older
\* one and a smaller branch name precedes a larger one; the comparator is
\* a strict weak order on the discovered versions.
C16_SortedByStrictWeakOrder ==
    \A p \in Procs :
        /\ Matching(p) => InOrder(List(p))
        /\ JustSorted(p) => StrictWeakOrder(CachedVersions)

\* a call has sorted main, v2.0.0, dev into v2.0.0, dev, main, and the
\* other URI's list is cached as well
C16_Witness ==
    \E p \in Procs :
        /\ Matching(p) /\ Len(List(p)) = 3
        /\ List(p)[1].Tag = V200 /\ List(p)[2].Branch = << "dev" >>
        /\ List(p)[3].Branch = << "main" >>
        /\ \A u \in URIs : versions[u].ok

\* No call is between the two halves of a swap
NoSwapUnderWay == \A p \in Procs : g[p].pc # "swap2"

\* How many elements of the list have the Commit, Tag and Branch of v
Count(list, v) ==
    Cardinality({ n \in 1..Len(list) : /\ list[n].Commit = v.Commit
                                        /\ list[n].Tag = v.Tag
                                        /\ list[n].Branch = v.Branch })

\* Two lists hold the same versions, each as many times
SameCollection(a, b) ==
    /\ Len(a) = Len(b)
    /\ \A n \in 1..Len(a) : Count(a, a[n]) = Count(b, a[n])

\* C17: whenever no swap is under way, the versions held for a cached URI
\* are, as a multiset of (Commit, Tag, Branch), those built from the
\* listing when the URI was cached.
C17_CachedCollectionFrozen ==
    \A u \in URIs :
        (versions[u].ok /\ NoSwapUnderWay)
            => \E l \in Remote(u) : SameCollection(versions[u].list, ParseListing(l))

\* The call of p is inside git.ListRemote
Listing(p) == g[p].pc = "listing"

\* C18: at most one goroutine is inside git.ListRemote, and it holds
\* versionsMu; no call gets past the cache lookup while another one is
\* listing, whatever their URIs; a call that gets past it for a URI that
\* is cached by then takes the cached list without listing.
C18_OneListingInFlight ==
    /\ [](\A p, q \in Procs :
            /\ (Listing(p) /\ Listing(q)) => p = q
            /\ Listing(p) => versionsMu = p)
    /\ [][\A q \in Procs :
            (g[q].pc = "fetch" /\ g'[q].pc # "fetch")
                => /\ \A p \in Procs : ~Listing(p)
                   /\ versions[g[q].uri].ok => g'[q].pc = "sort" /\ listCalls' = listCalls]_vars

\* two calls for a URI that was not cached when they were made are both
\* past the fetch, and the URI has been listed once
C18_Witness ==
    \E p, q \in Procs :
        /\ p # q /\ g[p].uri = g[q].uri
        /\ \A r \in {p, q} : ~g[r].cached /\ g[r].pc \in {"sort", "swap", "swap2", "walk"}
        /\ listCalls[g[p].uri] = 1

\* Commit, Tag and Branch of two versions match
FieldsMatch(v, w) == v.Commit = w.Commit /\ v.Tag = w.Tag /\ v.Branch = w.Branch

Priority(v) ==
    IF v.Virtual # << >> THEN "virtual"
    ELSE IF v.Tag # << >> THEN "tag"
    ELSE IF v.Branch # << >> THEN "branch"
    ELSE "commit"

\* C20: GitRef returns the sentinel for a virtual version, else
\* refs/tags/ and the Tag when Tag is set, else refs/heads/ and the Branch
\* when Branch is set, else the Commit; String has its virtual, tag,
\* branch and commit forms in the same cases.
C20_RefPriority ==
    /\ vcall.method = "GitRef" =>
          /\ Priority(vcall.a.v) = "virtual" => vcall.str = << "NOT_A_VALID_GIT_VERSION" >>
          /\ Priority(vcall.a.v) = "tag" => vcall.str = << "refs/tags/" >> \o vcall.a.v.Tag
          /\ Priority(vcall.a.v) = "branch" => vcall.str = << "refs/heads/" >> \o vcall.a.v.Branch
          /\ Priority(vcall.a.v) = "commit" => vcall.str = vcall.a.v.Commit
    /\ vcall.method = "String" =>
          /\ Priority(vcall.a.v) = "virtual"
                => vcall.str = << "virtual (source: " >> \o vcall.a.v.Virtual \o << ")" >>
          /\ Priority(vcall.a.v) = "tag"
                => vcall.str = << "tag " >> \o vcall.a.v.Tag \o << " (" >> \o vcall.a.v.Commit \o << ")" >>
          /\ Priority(vcall.a.v) = "branch"
                => vcall.str = << "branch " >> \o vcall.a.v.Branch \o << " (" >> \o vcall.a.v.Commit \o << ")" >>
          /\ Priority(vcall.a.v) = "commit" => vcall.str = vcall.a.v.Commit

\* GitRef was called on a version with Tag, Branch and Commit set and no
\* Virtual
C20_Witness ==
    /\ vcall.method = "GitRef"
    /\ vcall.a.v.Virtual = << >> /\ vcall.a.v.Tag # << >>
    /\ vcall.a.v.Branch # << >> /\ vcall.a.v.Commit # << >>

\* C21 (as claimed): Check is true for a criterion with a non-empty Branch
\* only when the version's Branch equals it; for such a criterion and a
\* tagged version Check returns false.
C21_BranchCriterionOnlyItsBranch ==
    (vcall.method = "Check" /\ vcall.cr.Branch # << >> /\ vcall.ok)
        => vcall.a.v.Branch = vcall.cr.Branch

\* C22: when the requested branch is non-empty and the criterion has no
\* Branch, Check returns true for every version and leaves the criterion
\* as it was.
C22_RequestedBranchVacuous ==
    (vcall.method = "Check" /\ vcall.branch # << >> /\ vcall.cr.Branch = << >>)
        => (vcall.ok /\ ~vcall.panic /\ crit[TheCriteria] = vcall.cr)

\* Check was given a branch version, a requested branch and a track, on a
\* parsed criterion with a range that has neither a Branch nor a track
C22_Witness ==
    /\ vcall.method = "Check" /\ vcall.branch # << >> /\ vcall.prerelease # << >>
    /\ vcall.cr.Branch = << >> /\ vcall.cr.c.set /\ vcall.cr.prerelease = << >>
    /\ ~vcall.a.v.sv.valid /\ vcall.ok

\* The Constraint with which instance k was first parsed
Original(k) ==
    (CHOOSE e \in parseLog[k] : \A f \in parseLog[k] : Len(e.input) <= Len(f.input)).input

\* C23: on one Criteria instance, a call changes the Constraint only after
\* Parse and only while it is still the Constraint that was parsed, so at
\* most once; a Parse call after the first changes nothing.
C23_ConstraintChangedOnce ==
    [][/\ crit'[TheCriteria].Constraint # crit[TheCriteria].Constraint
            => (parseLog[TheCriteria] # {}
                  /\ crit[TheCriteria].Constraint = Original(TheCriteria))
       /\ (vcall'.method = "Parse" /\ crit[TheCriteria].once) => crit' = crit]_vars

\* Parse was called again on an instance whose Constraint Check has changed
C23_Witness ==
    /\ vcall.method = "Parse" /\ vcall.cr.once
    /\ parseLog[TheCriteria] # {} /\ vcall.cr.Constraint # Original(TheCriteria)

\* The step changes the Constraint, the parsed range or the track of
\* instance k
Changed(k) ==
    \/ crit'[k].Constraint # crit[k].Constraint
    \/ crit'[k].c # crit[k].c
    \/ crit'[k].prerelease # crit[k].prerelease

\* No criterion of the call of p carries a track
NoTrackSupplied(p) == \A n \in 1..Len(g[p].args) : ~CarriesTrack(crit[g[p].args[n]])

\* C24: while a Resolve call matches, a step changes a criterion's
\* Constraint, range or track only when the call's track is non-empty and
\* the criterion has a parsed range and no track; the Constraint then gets
\* "-" and that track appended, the range is the one parsed from it and the
\* track is that track. In a call past its first loop in which no
\* criterion carries a track, no step changes any of the three.
C24_WideningOptIn ==
    [][\A p \in Procs : \A k \in CritIds :
          /\ (Matching(p) /\ Changed(k))
                => /\ g[p].prerelease # << >>
                   /\ crit[k].c.set /\ crit[k].prerelease = << >>
                   /\ crit'[k].Constraint = crit[k].Constraint \o << "-" >> \o g[p].prerelease
                   /\ crit'[k].c = NewConstraint(crit'[k].Constraint)
                   /\ crit'[k].prerelease = g[p].prerelease
                   /\ crit'[k].Branch = crit[k].Branch
          /\ (PastUnify(p) /\ NoTrackSupplied(p)) => ~Changed(k)]_vars

\* a call is matching after Check has rewritten one of its criteria, and
\* the other URI's list was matched by a call without any track
C24_Witness ==
    /\ \E p \in Procs : \E n \in 1..Len(g[p].args) :
          /\ Matching(p) /\ g[p].prerelease # << >>
          /\ parseLog[g[p].args[n]] # {}
          /\ g[p].given[n].Constraint = Original(g[p].args[n])
          /\ crit[g[p].args[n]].Constraint # Original(g[p].args[n])
    /\ prev.valid /\ prev.out.kind = "ok" /\ prev.out.ver.sv.pre = << >>

\* C25 (as claimed): of every two distinct versions of a sorted list the
\* comparator places one strictly before the other.
C25_OrderTotal ==
    \A p \in Procs :
        JustSorted(p) =>
            \A i, j \in 1..Len(List(p)) :
                i # j => (Less(List(p)[i], List(p)[j]) \/ Less(List(p)[j], List(p)[i]))

\* The element of the cached array that the last returned *Version points to
Held == versions[prev.uri].list[prev.out.idx]

\* C26 (as claimed): the *Version a successful Resolve has returned has the
\* Commit, Tag and Branch it had when it was returned, whatever the other
\* calls do.
C26_ReturnedVersionStable ==
    (prev.valid /\ prev.out.kind = "ok")
        => /\ Held.Commit = prev.out.ver.Commit
           /\ Held.Tag = prev.out.ver.Tag
           /\ Held.Branch = prev.out.ver.Branch

\* No criterion given to the call of p has a Branch
NoBranchSupplied(p) == \A n \in 1..Len(g[p].given) : g[p].given[n].Branch = << >>

\* C27: a successful Resolve call none of whose criteria has a Branch
\* returns a version with a Tag and a parsed semantic version, and no
\* Branch.
C27_TagWithoutBranchCriterion ==
    \A p \in Procs :
        (Returned(p, "ok") /\ NoBranchSupplied(p))
            => /\ g[p].out.ver.Tag # << >>
               /\ g[p].out.ver.sv.valid
               /\ g[p].out.ver.Branch = << >>

\* such a call has returned a tag from a list that holds branches
C27_Witness ==
    \E p \in Procs :
        /\ Returned(p, "ok") /\ NoBranchSupplied(p)
        /\ \E n \in 1..Len(List(p)) : List(p)[n].Branch # << >>

\* The call of p is the second of two calls with the same criteria in
\* opposite orders, the list cached before both
BothOrders(p) ==
    /\ Done(p) /\ prev.valid /\ prev.cached /\ g[p].cached
    /\ Len(g[p].given) = 2
    /\ prev.given = << g[p].given[2], g[p].given[1] >>
    /\ \A n \in 1..2 : ~g[p].given[n].used /\ ~prev.given[n].used

RewrittenFor(p, n, T) ==
    /\ T # << >>
    /\ parseLog[g[p].args[n]] # {}
    /\ TrackOf(Original(g[p].args[n])) = << >>
    /\ g[p].given[n].Constraint = Original(g[p].args[n]) \o << "-" >> \o T

\* The call of p was given two criteria, the n-th rewritten for T and the
\* other a range on another track
WithOtherTrack(p, n, T) ==
    /\ Len(g[p].args) = 2
    /\ RewrittenFor(p, n, T)
    /\ WellFormed(g[p].given[3 - n].Constraint)
    /\ TrackOf(g[p].given[3 - n].Constraint) \notin {<< >>, T}

\* The call of p was given one criterion, rewritten for T, and uses T as
\* its track
AloneUsesTrack(p, T) ==
    (Len(g[p].args) = 1 /\ RewrittenFor(p, 1, T))
        => /\ (PastUnify(p) \/ Done(p)) => g[p].prerelease = T
           /\ Done(p) => g[p].out.kind \in {"ok", "UnableToSatisfy", "ListingError"}

\* C29 (as claimed): a Resolve call with one criterion that Check has
\* rewritten for track T uses T as its track; a Resolve call with that
\* criterion and a criterion on another track fails with the pre-release
\* conflict error.
C29_RewrittenNamesTrack ==
    \A p \in Procs : \A T \in Tracks :
        /\ AloneUsesTrack(p, T)
        /\ \A n \in 1..Len(g[p].args) :
              WithOtherTrack(p, n, T)
                  => /\ ~PastUnify(p)
                     /\ Done(p) => g[p].out.kind = "ConflictingPrerelease"

\* C29 (amended): a Resolve call with one criterion that Check has
\* rewritten for track T uses T as its track; a Resolve call with that
\* criterion and a criterion on another track fails before it fetches:
\* with the pre-release conflict error, or, when the two criteria name
\* different branches, with the branch conflict error.
C29_RewrittenNamesTrackOrBranchConflict ==
    \A p \in Procs : \A T \in Tracks :
        /\ AloneUsesTrack(p, T)
        /\ \A n \in 1..Len(g[p].args) :
              WithOtherTrack(p, n, T)
                  => /\ ~PastUnify(p)
                     /\ Done(p) =>
                           IF BranchConflict(g[p].given[1].Branch, g[p].given[2])
                           THEN g[p].out.kind = "ConflictingBranch"
                           ELSE g[p].out.kind = "ConflictingPrerelease"

\* a call with a criterion written without a track and rewritten for alpha,
\* and a criterion on the beta track, has failed on the track conflict
C29_Witness ==
    \E p \in Procs : \E n \in 1..Len(g[p].args) :
        /\ WithOtherTrack(p, n, << "alpha" >>)
        /\ Returned(p, "ConflictingPrerelease")

\* C30 (as claimed): with concurrent Resolve calls that share a parsed
\* criterion without a track and have the same track T (alpha, the one
\* track of the concurrent callers' criteria), the criterion's Constraint
\* is the parsed one or the parsed one with "-T" appended once, and its
\* parsed range is the range of its Constraint.
C30_SuffixAppendedOnce ==
    \A k \in CritIds :
        (parseLog[k] # {} /\ crit[k].Constraint # Original(k))
            => /\ crit[k].Constraint = Original(k) \o << "-", "alpha" >>
               /\ crit[k].c = NewConstraint(crit[k].Constraint)

====
